---------------------------- MODULE Spec2Model ----------------------------
(***************************************************************************)
(* Model of local_asr.py: the record -> save -> transcribe pipeline run by *)
(* main(), with the exception classes of Python (KeyboardInterrupt and     *)
(* SystemExit are not subclasses of Exception) and the asynchronous audio  *)
(* capture of sounddevice.                                                 *)
(*                                                                         *)
(* An amplitude a is represented by its numerator n over AmpDen, that is   *)
(* a = n / AmpDen with -AmpDen <= n <= AmpDen, so that a lies in [-1, 1].  *)
(* Text is a sequence of tokens; the token " " is whitespace.              *)
(***************************************************************************)
EXTENDS Integers, Sequences, FiniteSets, TLC

VARIABLES
    pc,            \* position of main(): the next statement to run
    args,          \* argparse namespace returned by parse_arguments()
    dirExists,     \* the recordings directory exists on disk
    probe,         \* outcome of the CUDA probe in is_cuda_available
    device,        \* device chosen in load_whisper_model
    compute_type,  \* compute type chosen in load_whisper_model
    model,         \* WhisperModel handles constructed, in order
    capture,       \* state of the asynchronous capture started by sd.rec
    ticks,         \* countdown lines written so far
    remaining,     \* loop variable of the countdown
    buffer,        \* the array sd.rec returned, filled by the device
    audio_data,    \* buffer returned by record_audio
    audio_file,    \* value returned by save_audio
    wav,           \* the waveform file on disk
    segments,      \* rest of the lazy segment generator of model.transcribe
    transcript,    \* accumulator / return value of transcribe_audio
    shown,         \* transcripts printed inside the result block
    stdout,        \* messages printed, in order
    calls,         \* functions and library calls entered, in order
    completed,     \* stages that returned normally, in order
    faults,        \* exceptions raised, in order: [stage, kind]
    exitCode       \* exit status of the process, NotExited while running

vars == <<pc, args, dirExists, probe, device, compute_type, model, capture, ticks,
          remaining, buffer, audio_data, audio_file, wav, segments, transcript,
          shown, stdout, calls, completed, faults, exitCode>>

-----------------------------------------------------------------------------
(* Bounds of the model *)

MaxDuration == 2

MaxRate == 2

AmpDen == 2

MaxSegments == 2

MaxQuantFrames == 3

MaxNonPositive == 1

(* Program constants *)

FullScale == 32767

Int16Modulus == 65536

NotExited == 0 - 1

None == "None"

Sentinel == <<"Transcription failed. Please check logs.">>

ModelSizes == {"tiny", "base", "small", "medium", "large"}

Durations == (0 - MaxNonPositive) .. MaxDuration

SampleRates == 1 .. MaxRate

Amplitudes == (0 - AmpDen) .. AmpDen

SegTexts == { <<" ", "hello">>, <<"world", " ">> }

NoArgs == [duration |-> 0, model |-> None, sample_rate |-> 0,
           download_latest |-> FALSE]

NoWav == [exists |-> FALSE, rate |-> 0, samples |-> <<>>]


-----------------------------------------------------------------------------
(* Python's exception classes.  "Error" stands for any other subclass of   *)
(* Exception (OSError, PortAudioError, RuntimeError, ...).                 *)

ExceptionKinds == {"ImportError", "Error", "KeyboardInterrupt", "SystemExit"}

IsSubclass(kind, cls) ==
    \/ kind = cls
    \/ cls = "BaseException"
    \/ cls = "Exception" /\ kind \in {"ImportError", "Error"}

Raise(kind, code) == [tag |-> "raise", kind |-> kind, code |-> code, msgs |-> <<>>]

SysExit(code, msgs) ==
    [tag |-> "raise", kind |-> "SystemExit", code |-> code, msgs |-> msgs]

Return(msgs) == [tag |-> "return", kind |-> None, code |-> 0, msgs |-> msgs]

(* is_cuda_available: except ImportError -> return False *)
ProbeHandler(kind) ==
    IF IsSubclass(kind, "ImportError")
    THEN Return(<<"PyTorch not installed">>)
    ELSE Raise(kind, 0)

(* a handler that logs the error and lets load_whisper_model return None *)
LoadHandlerReturnsNone(kind) ==
    IF IsSubclass(kind, "Exception")
    THEN Return(<<"Error loading Whisper model">>)
    ELSE Raise(kind, 0)

(* load_whisper_model: except Exception -> sys.exit(1) *)
LoadHandler(kind) ==
    IF IsSubclass(kind, "Exception")
    THEN SysExit(1, <<"Error loading Whisper model">>)
    ELSE Raise(kind, 0)

(* a bare except: clause, which also catches KeyboardInterrupt *)
RecordHandlerBareExcept(kind) ==
    IF IsSubclass(kind, "BaseException")
    THEN SysExit(1, <<"Error recording audio">>)
    ELSE Raise(kind, 0)

(* record_audio: except Exception -> sys.exit(1) *)
RecordHandler(kind) ==
    IF IsSubclass(kind, "Exception")
    THEN SysExit(1, <<"Error recording audio">>)
    ELSE Raise(kind, 0)

(* save_audio: except Exception -> return None *)
SaveHandler(kind) ==
    IF IsSubclass(kind, "Exception")
    THEN Return(<<"Error saving audio file">>)
    ELSE Raise(kind, 0)

(* a handler that exits like the handlers of load and record do *)
TranscribeHandlerFatal(kind) ==
    IF IsSubclass(kind, "Exception")
    THEN SysExit(1, <<"Error transcribing audio">>)
    ELSE Raise(kind, 0)

(* transcribe_audio: except Exception -> return the sentinel string *)
TranscribeHandler(kind) ==
    IF IsSubclass(kind, "Exception")
    THEN Return(<<"Error transcribing audio">>)
    ELSE Raise(kind, 0)

(* main: except KeyboardInterrupt -> sys.exit(0); except Exception ->      *)
(* sys.exit(1); anything else (SystemExit) leaves main and the interpreter *)
(* exits with its code.                                                    *)
MainHandler(kind, code) ==
    IF IsSubclass(kind, "KeyboardInterrupt")
    THEN [code |-> 0, msgs |-> <<"Process interrupted by user">>]
    ELSE IF IsSubclass(kind, "Exception")
    THEN [code |-> 1, msgs |-> <<"An unexpected error occurred">>]
    ELSE [code |-> code, msgs |-> <<>>]

-----------------------------------------------------------------------------
(* Pure helpers *)

(* the check written as duration < 0 *)
ValidDurationOffByOne(duration) == duration >= 0

(* if duration <= 0: ... sys.exit(1) *)
ValidDuration(duration) == duration > 0

(* int(duration * sample_rate) *)
Frames(duration, sample_rate) == duration * sample_rate

(* half precision requested on the CPU as well *)
SelectDeviceHalfOnCpu(cuda) ==
    IF cuda THEN [device |-> "cuda", compute_type |-> "float16"]
            ELSE [device |-> "cpu", compute_type |-> "float16"]

(* device / compute_type chosen from the probe *)
SelectDevice(cuda) ==
    IF cuda THEN [device |-> "cuda", compute_type |-> "float16"]
            ELSE [device |-> "cpu", compute_type |-> "int8"]

(* C cast of a float to an integer: the fraction is dropped, toward zero *)
TruncToZero(num, den) ==
    IF num >= 0 THEN num \div den ELSE 0 - ((0 - num) \div den)

(* round(): to nearest, ties to even *)
RoundHalfEven(num, den) ==
    LET q == num \div den
        r == num % den
    IN  IF 2 * r < den THEN q
        ELSE IF 2 * r > den THEN q + 1
        ELSE IF q % 2 = 0 THEN q ELSE q + 1

(* two's complement 16-bit value *)
ToInt16(x) == ((x + (Int16Modulus \div 2)) % Int16Modulus) - (Int16Modulus \div 2)

(* np.round(a * 32767).astype(np.int16) *)
QuantizeRounded(n) == ToInt16(RoundHalfEven(n * FullScale, AmpDen))

(* (a * 32767).astype(np.int16) for one sample a = n / AmpDen *)
Quantize(n) == ToInt16(TruncToZero(n * FullScale, AmpDen))

QuantizeAll(buf) == [i \in 1 .. Len(buf) |-> Quantize(buf[i])]

(* main without the check of the value save_audio returned *)
SavedOkUnchecked(file) == TRUE

(* if not audio_file: ... sys.exit(1) *)
SavedOk(file) == file # None

(* record_audio without the blocking wait *)
WaitReturnsAtOnce(cap) == TRUE

(* sd.wait() returns once the capture has completed *)
WaitReturns(cap) == cap = "complete"

IsSpace(tok) == tok = " "

RECURSIVE LStrip(_)
LStrip(t) ==
    IF t # <<>> /\ IsSpace(Head(t)) THEN LStrip(Tail(t)) ELSE t

RECURSIVE RStrip(_)
RStrip(t) ==
    IF t # <<>> /\ IsSpace(t[Len(t)]) THEN RStrip(SubSeq(t, 1, Len(t) - 1)) ELSE t

(* str.strip() *)
Strip(t) == RStrip(LStrip(t))

(* the segment sequences model.transcribe may produce *)
RECURSIVE SeqsUpTo(_, _)
SeqsUpTo(S, n) ==
    IF n = 0 THEN { <<>> }
    ELSE LET shorter == SeqsUpTo(S, n - 1)
         IN  shorter \cup { Append(q, x) : q \in shorter, x \in S }

(* the signals the microphone delivers in a run: n frames of one level *)
Signals(n) == { [i \in 1 .. n |-> a] : a \in Amplitudes }

(* main with the recording placed before the model load *)
MainNextRecordFirst(stage) ==
    CASE stage = "parse_arguments" -> "create_output_directory"
      [] stage = "create_output_directory" -> "record_audio"
      [] stage = "record_audio" -> "load_whisper_model"
      [] stage = "load_whisper_model" -> "save_audio"
      [] stage = "save_audio" -> "check_saved"
      [] stage = "check_saved" -> "transcribe_audio"
      [] stage = "transcribe_audio" -> "display"
      [] stage = "display" -> "exited"

(* main with the transcription placed before the save *)
MainNextTranscribeFirst(stage) ==
    CASE stage = "parse_arguments" -> "create_output_directory"
      [] stage = "create_output_directory" -> "load_whisper_model"
      [] stage = "load_whisper_model" -> "record_audio"
      [] stage = "record_audio" -> "transcribe_audio"
      [] stage = "transcribe_audio" -> "save_audio"
      [] stage = "save_audio" -> "check_saved"
      [] stage = "check_saved" -> "display"
      [] stage = "display" -> "exited"

(* the statement of main that follows each statement *)
MainNext(stage) ==
    CASE stage = "parse_arguments" -> "create_output_directory"
      [] stage = "create_output_directory" -> "load_whisper_model"
      [] stage = "load_whisper_model" -> "record_audio"
      [] stage = "record_audio" -> "save_audio"
      [] stage = "save_audio" -> "check_saved"
      [] stage = "check_saved" -> "transcribe_audio"
      [] stage = "transcribe_audio" -> "display"
      [] stage = "display" -> "exited"

-----------------------------------------------------------------------------
(* State after the interpreter has imported the module and called main()   *)

Init ==
    /\ pc = "parse_arguments"
    /\ args = NoArgs
    /\ dirExists \in BOOLEAN
    /\ probe = None
    /\ device = None
    /\ compute_type = None
    /\ model = <<>>
    /\ capture = "idle"
    /\ ticks = 0
    /\ remaining = 0
    /\ buffer = <<>>
    /\ audio_data = <<>>
    /\ audio_file = None
    /\ wav = NoWav
    /\ segments = <<>>
    /\ transcript = <<>>
    /\ shown = <<>>
    /\ stdout = <<>>
    /\ calls = <<>>
    /\ completed = <<>>
    /\ faults = <<>>
    /\ exitCode = NotExited

Fault(stage, kind) == [stage |-> stage, kind |-> kind]

(* An exception leaves the current function and reaches the handlers of    *)
(* main; the process ends.  o is the outcome of the function's own handler.*)
Propagate(stage, kind, o) ==
    LET h == MainHandler(o.kind, o.code)
    IN  /\ pc' = "exited"
        /\ exitCode' = h.code
        /\ stdout' = stdout \o o.msgs \o h.msgs
        /\ faults' = Append(faults, Fault(stage, kind))

(* args = parse_arguments() *)
ParseArguments ==
    /\ pc = "parse_arguments"
    /\ calls' = Append(calls, "parse_arguments")
    /\ \/ /\ \E d \in Durations, m \in ModelSizes, r \in SampleRates,
               dl \in BOOLEAN :
                 args' = [duration |-> d, model |-> m, sample_rate |-> r,
                          download_latest |-> dl]
          /\ pc' = MainNext("parse_arguments")
          /\ completed' = Append(completed, "parse_arguments")
          /\ UNCHANGED <<exitCode, stdout, faults>>
       \/ /\ Propagate("parse_arguments", "SystemExit", Raise("SystemExit", 2))
          /\ UNCHANGED <<args, completed>>
       \/ /\ Propagate("parse_arguments", "KeyboardInterrupt",
                       Raise("KeyboardInterrupt", 0))
          /\ UNCHANGED <<args, completed>>
    /\ UNCHANGED <<dirExists, probe, device, compute_type, model, capture, ticks,
                   remaining, buffer, audio_data, audio_file, wav, segments,
                   transcript, shown>>

(* output_dir = create_output_directory() *)
CreateOutputDirectory ==
    /\ pc = "create_output_directory"
    /\ calls' = Append(calls, "create_output_directory")
    /\ \/ /\ dirExists' = TRUE
          /\ pc' = MainNext("create_output_directory")
          /\ completed' = Append(completed, "create_output_directory")
          /\ UNCHANGED <<exitCode, stdout, faults>>
       \/ /\ ~dirExists
          /\ Propagate("create_output_directory", "Error", Raise("Error", 0))
          /\ UNCHANGED <<dirExists, completed>>
       \/ /\ Propagate("create_output_directory", "KeyboardInterrupt",
                       Raise("KeyboardInterrupt", 0))
          /\ UNCHANGED <<dirExists, completed>>
    /\ UNCHANGED <<args, probe, device, compute_type, model, capture, ticks,
                   remaining, buffer, audio_data, audio_file, wav, segments,
                   transcript, shown>>

(* load_whisper_model, first part: is_cuda_available() and the choice of   *)
(* device and compute_type                                                 *)
DetermineDevice ==
    /\ pc = "load_whisper_model"
    /\ calls' = calls \o <<"load_whisper_model", "is_cuda_available">>
    /\ \E r \in {"available", "unavailable", "ImportError", "Error",
                 "KeyboardInterrupt"} :
         LET o == IF r \in ExceptionKinds THEN ProbeHandler(r) ELSE Return(<<>>)
             cuda == r = "available"
             sel == SelectDevice(cuda)
         IN  IF o.tag = "return"
             THEN /\ probe' = r
                  /\ device' = sel.device
                  /\ compute_type' = sel.compute_type
                  /\ stdout' = stdout \o o.msgs \o <<"Using " \o sel.device>>
                  /\ pc' = IF args.download_latest THEN "download_model"
                                                   ELSE "WhisperModel"
                  /\ completed' = Append(completed, "is_cuda_available")
                  /\ faults' = IF r \in ExceptionKinds
                               THEN Append(faults, Fault("is_cuda_available", r))
                               ELSE faults
                  /\ UNCHANGED exitCode
             ELSE /\ Propagate("is_cuda_available", r, o)
                  /\ UNCHANGED <<probe, device, compute_type, completed>>
    /\ UNCHANGED <<args, dirExists, model, capture, ticks, remaining, buffer,
                   audio_data, audio_file, wav, segments, transcript, shown>>

(* the function returns None to main after its handler swallowed an error  *)
LoadReturnsNone(stage, kind, o) ==
    /\ pc' = MainNext("load_whisper_model")
    /\ stdout' = stdout \o o.msgs
    /\ faults' = Append(faults, Fault(stage, kind))
    /\ UNCHANGED exitCode

(* load_whisper_model: if download_latest: download_model(model_size) *)
DownloadModel ==
    /\ pc = "download_model"
    /\ calls' = Append(calls, "download_model")
    /\ \E e \in {"ok", "Error", "KeyboardInterrupt"} :
         IF e = "ok"
         THEN /\ pc' = "WhisperModel"
              /\ stdout' = Append(stdout, "Latest model downloaded")
              /\ completed' = Append(completed, "download_model")
              /\ UNCHANGED <<exitCode, faults>>
         ELSE /\ LET o == LoadHandler(e)
                 IN  IF o.tag = "raise"
                     THEN Propagate("download_model", e, o)
                     ELSE LoadReturnsNone("download_model", e, o)
              /\ UNCHANGED completed
    /\ UNCHANGED <<args, dirExists, probe, device, compute_type, model, capture,
                   ticks, remaining, buffer, audio_data, audio_file, wav,
                   segments, transcript, shown>>

(* load_whisper_model: WhisperModel(model_size, device, compute_type) *)
LoadModel ==
    /\ pc = "WhisperModel"
    /\ calls' = Append(calls, "WhisperModel")
    /\ \E e \in {"ok", "Error", "KeyboardInterrupt"} :
         IF e = "ok"
         THEN /\ model' = Append(model, [size |-> args.model, device |-> device,
                                         compute_type |-> compute_type])
              /\ pc' = MainNext("load_whisper_model")
              /\ stdout' = Append(stdout, "Model loaded successfully.")
              /\ completed' = Append(completed, "load_whisper_model")
              /\ UNCHANGED <<exitCode, faults>>
         ELSE /\ LET o == LoadHandler(e)
                 IN  IF o.tag = "raise"
                     THEN Propagate("WhisperModel", e, o)
                     ELSE LoadReturnsNone("WhisperModel", e, o)
              /\ UNCHANGED <<model, completed>>
    /\ UNCHANGED <<args, dirExists, probe, device, compute_type, capture, ticks,
                   remaining, buffer, audio_data, audio_file, wav, segments,
                   transcript, shown>>

(* record_audio: the duration check that precedes the try block *)
RecordAudio ==
    /\ pc = "record_audio"
    /\ calls' = Append(calls, "record_audio")
    /\ \E e \in {"ok", "KeyboardInterrupt"} :
         IF e = "KeyboardInterrupt"
         THEN Propagate("record_audio", e, Raise(e, 0))
         ELSE IF ValidDuration(args.duration)
         THEN /\ pc' = "sd.rec"
              /\ stdout' = Append(stdout, "Recording audio")
              /\ UNCHANGED <<exitCode, faults>>
         ELSE Propagate("record_audio", "SystemExit",
                        SysExit(1, <<"Error: Duration must be a positive integer.">>))
    /\ UNCHANGED <<args, dirExists, probe, device, compute_type, model, capture,
                   ticks, remaining, buffer, audio_data, audio_file, wav,
                   segments, transcript, shown, completed>>

(* record_audio: audio_data = sd.rec(...), which returns at once while the *)
(* device fills the array in the background                                *)
SdRec ==
    /\ pc = "sd.rec"
    /\ calls' = Append(calls, "sd.rec")
    /\ \E e \in {"ok", "Error", "KeyboardInterrupt"} :
         IF e = "ok"
         THEN /\ capture' = "running"
              /\ remaining' = args.duration
              /\ pc' = "countdown"
              /\ UNCHANGED <<exitCode, stdout, faults>>
         ELSE /\ Propagate("sd.rec", e, RecordHandler(e))
              /\ UNCHANGED <<capture, remaining>>
    /\ UNCHANGED <<args, dirExists, probe, device, compute_type, model, ticks,
                   buffer, audio_data, audio_file, wav, segments, transcript,
                   shown, completed>>

(* record_audio: one pass of for remaining in range(duration, 0, -1) *)
CountdownTick ==
    /\ pc = "countdown"
    /\ remaining > 0
    /\ \E e \in {"ok", "Error", "KeyboardInterrupt"} :
         IF e = "ok"
         THEN /\ ticks' = ticks + 1
              /\ remaining' = remaining - 1
              /\ UNCHANGED <<pc, exitCode, stdout, faults>>
         ELSE /\ Propagate("countdown", e, RecordHandler(e))
              /\ UNCHANGED <<ticks, remaining>>
    /\ UNCHANGED <<args, dirExists, probe, device, compute_type, model, capture,
                   buffer, audio_data, audio_file, wav, segments, transcript,
                   shown, calls, completed>>

(* record_audio: the loop is exhausted; print("\nRecording complete.") *)
CountdownEnd ==
    /\ pc = "countdown"
    /\ remaining <= 0
    /\ pc' = "sd.wait"
    /\ stdout' = Append(stdout, "Recording complete.")
    /\ UNCHANGED <<args, dirExists, probe, device, compute_type, model, capture,
                   ticks, remaining, buffer, audio_data, audio_file, wav,
                   segments, transcript, shown, calls, completed, faults,
                   exitCode>>

(* the input device delivers the last of the requested frames *)
DeviceFill ==
    /\ capture = "running"
    /\ pc # "exited"
    /\ capture' = "complete"
    /\ buffer' \in Signals(Frames(args.duration, args.sample_rate))
    /\ UNCHANGED <<pc, args, dirExists, probe, device, compute_type, model, ticks,
                   remaining, audio_data, audio_file, wav, segments,
                   transcript, shown, stdout, calls, completed, faults,
                   exitCode>>

(* record_audio: sd.wait(); return audio_data *)
SdWait ==
    /\ pc = "sd.wait"
    /\ \E e \in {"ok", "Error", "KeyboardInterrupt"} :
         IF e = "ok"
         THEN /\ WaitReturns(capture)
              /\ calls' = Append(calls, "sd.wait")
              /\ audio_data' = buffer
              /\ pc' = MainNext("record_audio")
              /\ completed' = Append(completed, "record_audio")
              /\ UNCHANGED <<exitCode, stdout, faults>>
         ELSE /\ calls' = Append(calls, "sd.wait")
              /\ Propagate("sd.wait", e, RecordHandler(e))
              /\ UNCHANGED <<audio_data, completed>>
    /\ UNCHANGED <<args, dirExists, probe, device, compute_type, model, capture,
                   ticks, remaining, buffer, audio_file, wav, segments,
                   transcript, shown>>

(* save_audio: the conversion to int16 and write_wav *)
SaveAudio ==
    /\ pc = "save_audio"
    /\ calls' = Append(calls, "save_audio")
    /\ \E e \in {"ok", "Error", "KeyboardInterrupt"} :
         IF e = "ok"
         THEN /\ wav' = [exists |-> TRUE, rate |-> args.sample_rate,
                         samples |-> QuantizeAll(audio_data)]
              /\ audio_file' = "recordings/recording_<timestamp>.wav"
              /\ pc' = MainNext("save_audio")
              /\ stdout' = Append(stdout, "Audio saved")
              /\ completed' = Append(completed, "save_audio")
              /\ UNCHANGED <<exitCode, faults>>
         ELSE /\ LET o == SaveHandler(e)
                 IN  IF o.tag = "return"
                     THEN /\ audio_file' = None
                          /\ pc' = MainNext("save_audio")
                          /\ stdout' = stdout \o o.msgs
                          /\ faults' = Append(faults, Fault("save_audio", e))
                          /\ UNCHANGED exitCode
                     ELSE /\ Propagate("save_audio", e, o)
                          /\ UNCHANGED audio_file
              /\ UNCHANGED <<wav, completed>>
    /\ UNCHANGED <<args, dirExists, probe, device, compute_type, model, capture,
                   ticks, remaining, buffer, audio_data, segments, transcript,
                   shown>>

(* main: if not audio_file: print(...); sys.exit(1) *)
CheckSaved ==
    /\ pc = "check_saved"
    /\ \E e \in {"ok", "KeyboardInterrupt"} :
         IF e = "KeyboardInterrupt"
         THEN Propagate("main", e, Raise(e, 0))
         ELSE IF SavedOk(audio_file)
         THEN /\ pc' = MainNext("check_saved")
              /\ UNCHANGED <<exitCode, stdout, faults>>
         ELSE Propagate("main", "SystemExit",
                        SysExit(1, <<"Failed to save audio file. Exiting.">>))
    /\ UNCHANGED <<args, dirExists, probe, device, compute_type, model, capture,
                   ticks, remaining, buffer, audio_data, audio_file, wav,
                   segments, transcript, shown, calls, completed>>

(* transcribe_audio returns the sentinel after its handler caught kind *)
TranscribeFails(stage, kind, o) ==
    IF o.tag = "return"
    THEN /\ transcript' = Sentinel
         /\ segments' = <<>>
         /\ pc' = MainNext("transcribe_audio")
         /\ stdout' = stdout \o o.msgs
         /\ faults' = Append(faults, Fault(stage, kind))
         /\ UNCHANGED exitCode
    ELSE /\ Propagate(stage, kind, o)
         /\ UNCHANGED <<transcript, segments>>

(* transcribe_audio: segments, info = model.transcribe(audio_file, ...) *)
TranscribeAudio ==
    /\ pc = "transcribe_audio"
    /\ calls' = calls \o <<"transcribe_audio", "model.transcribe">>
    /\ \E e \in {"ok", "Error", "KeyboardInterrupt"} :
         IF e = "ok" /\ model # <<>>
         THEN /\ segments' \in SeqsUpTo(SegTexts, MaxSegments)
              /\ transcript' = <<>>
              /\ pc' = "segments"
              /\ UNCHANGED <<exitCode, stdout, faults>>
         ELSE LET kind == IF e = "ok" THEN "Error" ELSE e
              IN  TranscribeFails("model.transcribe", kind, TranscribeHandler(kind))
    /\ UNCHANGED <<args, dirExists, probe, device, compute_type, model, capture,
                   ticks, remaining, buffer, audio_data, audio_file, wav,
                   shown, completed>>

(* transcribe_audio: one pass of for segment in segments *)
ConsumeSegment ==
    /\ pc = "segments"
    /\ segments # <<>>
    /\ \E e \in {"ok", "Error", "KeyboardInterrupt"} :
         IF e = "ok"
         THEN /\ transcript' = transcript \o Head(segments) \o <<" ">>
              /\ segments' = Tail(segments)
              /\ UNCHANGED <<pc, exitCode, stdout, faults>>
         ELSE TranscribeFails("segments", e, TranscribeHandler(e))
    /\ UNCHANGED <<args, dirExists, probe, device, compute_type, model, capture,
                   ticks, remaining, buffer, audio_data, audio_file, wav,
                   shown, calls, completed>>

(* transcribe_audio: the generator is exhausted; return transcript.strip() *)
ReturnTranscript ==
    /\ pc = "segments"
    /\ segments = <<>>
    /\ transcript' = Strip(transcript)
    /\ pc' = MainNext("transcribe_audio")
    /\ stdout' = Append(stdout, "Transcription completed")
    /\ completed' = Append(completed, "transcribe_audio")
    /\ UNCHANGED <<args, dirExists, probe, device, compute_type, model, capture,
                   ticks, remaining, buffer, audio_data, audio_file, wav,
                   segments, shown, calls, faults, exitCode>>

(* main: the result block; main returns and the interpreter exits with 0 *)
Display ==
    /\ pc = "display"
    /\ \E e \in {"ok", "KeyboardInterrupt"} :
         IF e = "ok"
         THEN /\ shown' = Append(shown, transcript)
              /\ stdout' = Append(stdout, "TRANSCRIPTION RESULT:")
              /\ pc' = MainNext("display")
              /\ exitCode' = 0
              /\ UNCHANGED faults
         ELSE /\ Propagate("display", e, Raise(e, 0))
              /\ UNCHANGED shown
    /\ UNCHANGED <<args, dirExists, probe, device, compute_type, model, capture,
                   ticks, remaining, buffer, audio_data, audio_file, wav,
                   segments, transcript, calls, completed>>

Next ==
    \/ ParseArguments
    \/ CreateOutputDirectory
    \/ DetermineDevice
    \/ DownloadModel
    \/ LoadModel
    \/ RecordAudio
    \/ SdRec
    \/ CountdownTick
    \/ CountdownEnd
    \/ DeviceFill
    \/ SdWait
    \/ SaveAudio
    \/ CheckSaved
    \/ TranscribeAudio
    \/ ConsumeSegment
    \/ ReturnTranscript
    \/ Display

Spec == Init /\ [][Next]_vars

-----------------------------------------------------------------------------
(* The conversion of save_audio on its own: save_audio is entered with any *)
(* buffer of amplitudes in [-1, 1].                                        *)

InitQuant ==
    /\ pc = "save_audio"
    /\ args \in [duration : 1 .. MaxQuantFrames, model : {"base"},
                 sample_rate : {1}, download_latest : {FALSE}]
    /\ dirExists = TRUE
    /\ probe = "unavailable"
    /\ device = "cpu"
    /\ compute_type = "int8"
    /\ model = <<[size |-> "base", device |-> "cpu", compute_type |-> "int8"]>>
    /\ capture = "complete"
    /\ ticks = args.duration
    /\ remaining = 0
    /\ buffer \in [1 .. Frames(args.duration, args.sample_rate) -> Amplitudes]
    /\ audio_data = buffer
    /\ audio_file = None
    /\ wav = NoWav
    /\ segments = <<>>
    /\ transcript = <<>>
    /\ shown = <<>>
    /\ stdout = <<"Using cpu", "Model loaded successfully.", "Recording audio",
                  "Recording complete.">>
    /\ calls = <<"parse_arguments", "create_output_directory",
                 "load_whisper_model", "is_cuda_available", "WhisperModel",
                 "record_audio", "sd.rec", "sd.wait">>
    /\ completed = <<"parse_arguments", "create_output_directory",
                     "is_cuda_available", "load_whisper_model", "record_audio">>
    /\ faults = <<>>
    /\ exitCode = NotExited

NextQuant == SaveAudio

SpecQuant == InitQuant /\ [][NextQuant]_vars

-----------------------------------------------------------------------------
(* Vocabulary of the properties *)

Called(f) == \E i \in DOMAIN calls : calls[i] = f

Count(f) == Len(SelectSeq(calls, LAMBDA c : c = f))

Completed(f) == \E i \in DOMAIN completed : completed[i] = f

Printed(m) == \E i \in DOMAIN stdout : stdout[i] = m

Raised(stages, cls) ==
    \E i \in DOMAIN faults :
        faults[i].stage \in stages /\ IsSubclass(faults[i].kind, cls)

Interrupted == Raised({faults[i].stage : i \in DOMAIN faults}, "KeyboardInterrupt")

LastPrinted(m) == stdout # <<>> /\ stdout[Len(stdout)] = m

IsPrefix(p, q) ==
    Len(p) <= Len(q) /\ \A i \in DOMAIN p : p[i] = q[i]

StageOrder ==
    <<"is_cuda_available", "WhisperModel", "record_audio", "save_audio",
      "transcribe_audio">>

IsStage(c) == \E i \in DOMAIN StageOrder : StageOrder[i] = c

StageCalls == SelectSeq(calls, IsStage)

DurationError == "Error: Duration must be a positive integer."

SaveReturnedNone == Raised({"save_audio"}, "Exception")

ModelStageFailed == Raised({"download_model", "WhisperModel"}, "Exception")

TranscribeFailed == Raised({"model.transcribe", "segments"}, "Exception")

DeviceError == Raised({"sd.rec", "countdown", "sd.wait"}, "Exception")

-----------------------------------------------------------------------------
(* C1: transcribe_audio is entered only after save_audio has returned a    *)
(* file path; once save_audio has returned None, main goes to its check    *)
(* and from there out of the process with exit code 1 (unless the user     *)
(* interrupts that last step), and transcribe_audio is never entered.      *)
C1_TranscribeOnlyAfterSave ==
    /\ Called("transcribe_audio") =>
          /\ audio_file # None
          /\ wav.exists
          /\ Completed("save_audio")
    /\ SaveReturnedNone =>
          /\ audio_file = None
          /\ ~Called("transcribe_audio")
          /\ ~Called("model.transcribe")
          /\ pc \in {"check_saved", "exited"}
          /\ (pc = "exited" /\ ~Interrupted =>
                 exitCode = 1 /\ LastPrinted("Failed to save audio file. Exiting."))

C1_Witness ==
    /\ SaveReturnedNone
    /\ pc = "exited"
    /\ exitCode = 1
    /\ ~Interrupted

(* C2: a KeyboardInterrupt raised in any statement of main ends the run at *)
(* once through main's own handler: exit code 0, the interruption notice   *)
(* is the last thing printed, and no stage handler reported it as its own  *)
(* error or returned a failure value for it.                               *)
C2_InterruptIsCleanExit ==
    Interrupted =>
        /\ pc = "exited"
        /\ exitCode = 0
        /\ LastPrinted("Process interrupted by user")
        /\ faults[Len(faults)].kind = "KeyboardInterrupt"
        /\ ~Printed("An unexpected error occurred")
        /\ (Raised({"sd.rec", "countdown", "sd.wait"}, "KeyboardInterrupt") =>
               ~Printed("Error recording audio"))
        /\ (Raised({"download_model", "WhisperModel"}, "KeyboardInterrupt") =>
               ~Printed("Error loading Whisper model"))
        /\ (Raised({"save_audio"}, "KeyboardInterrupt") =>
               ~Printed("Error saving audio file"))
        /\ (Raised({"model.transcribe", "segments"}, "KeyboardInterrupt") =>
               ~Printed("Error transcribing audio"))
        /\ (transcript = Sentinel => TranscribeFailed)
        /\ (audio_file = None => ~Completed("save_audio"))
        /\ shown = <<>>

C2_Witness ==
    /\ Raised({"countdown"}, "KeyboardInterrupt")
    /\ capture = "running"
    /\ ticks = 1
    /\ exitCode = 0

(* C3: with a duration <= 0, sd.rec is never called and no capture is ever *)
(* started; record_audio's check ends the run with exit code 1, its own    *)
(* message being the last one printed (main's generic handler adds none).  *)
C3_InvalidDurationExitsBeforeDevice ==
    (Completed("parse_arguments") /\ args.duration <= 0) =>
        /\ ~Called("sd.rec")
        /\ ~Called("sd.wait")
        /\ capture = "idle"
        /\ (Called("record_audio") /\ ~Interrupted =>
               /\ pc = "exited"
               /\ exitCode = 1
               /\ LastPrinted(DurationError)
               /\ ~Printed("An unexpected error occurred"))

C3_Witness ==
    /\ args.duration = 0
    /\ Called("record_audio")
    /\ exitCode = 1
    /\ LastPrinted(DurationError)

(* C4: an error raised by download_model or by WhisperModel ends the run   *)
(* with exit code 1; no model handle exists, neither call is repeated, and *)
(* record_audio, save_audio and transcribe_audio are never entered.        *)
C4_ModelFailureIsFatal ==
    ModelStageFailed =>
        /\ pc = "exited"
        /\ exitCode = 1
        /\ LastPrinted("Error loading Whisper model")
        /\ model = <<>>
        /\ ~Called("record_audio")
        /\ ~Called("sd.rec")
        /\ ~Called("save_audio")
        /\ ~Called("transcribe_audio")
        /\ Count("download_model") <= 1
        /\ Count("WhisperModel") <= 1

C4_Witness ==
    /\ Raised({"download_model"}, "Exception")
    /\ args.download_latest
    /\ exitCode = 1

(* C5: once model.transcribe or the iteration over its segments has raised *)
(* an error, transcribe_audio has returned the sentinel string, the saved  *)
(* file is still there, and the run can only go on to the result block: it *)
(* ends with exit code 0, and with the sentinel printed in the block       *)
(* unless the user interrupts the printing.                                *)
C5_TranscriptionErrorIsAbsorbed ==
    TranscribeFailed =>
        /\ transcript = Sentinel
        /\ Printed("Error transcribing audio")
        /\ wav.exists
        /\ audio_file # None
        /\ pc \in {"display", "exited"}
        /\ (pc = "exited" => exitCode = 0)
        /\ (pc = "exited" /\ ~Interrupted =>
               shown = <<Sentinel>> /\ LastPrinted("TRANSCRIPTION RESULT:"))

C5_Witness ==
    /\ Raised({"segments"}, "Exception")
    /\ pc = "exited"
    /\ exitCode = 0
    /\ shown = <<Sentinel>>

(* C6: the stages are entered in the order device selection, model load,   *)
(* record, save, transcribe, each at most once, and each only after the    *)
(* one before it (and the download, when requested) returned normally.     *)
C6_StagesInOrder ==
    /\ IsPrefix(StageCalls, StageOrder)
    /\ Count("download_model") <= 1
    /\ (Called("download_model") =>
           args.download_latest /\ Completed("is_cuda_available"))
    /\ (Called("WhisperModel") =>
           /\ Completed("is_cuda_available")
           /\ args.download_latest => Completed("download_model"))
    /\ (Called("record_audio") =>
           Completed("load_whisper_model") /\ Len(model) = 1)
    /\ (Called("save_audio") =>
           Completed("record_audio") /\ capture = "complete")
    /\ (Called("transcribe_audio") =>
           Completed("save_audio") /\ wav.exists)
    /\ (shown # <<>> => Called("transcribe_audio"))

C6_Witness ==
    /\ StageCalls = StageOrder
    /\ Called("download_model")
    /\ Completed("transcribe_audio")
    /\ pc = "exited"
    /\ exitCode = 0

(* C7: the probe outcome fixes the pair: available gives (cuda, float16);  *)
(* unavailable or a failed import of torch gives (cpu, int8); the failed   *)
(* import does not end the run, and WhisperModel is constructed with the   *)
(* chosen pair only.                                                       *)
C7_DeviceSelectionMapping ==
    /\ (probe = "available" => device = "cuda" /\ compute_type = "float16")
    /\ (probe \in {"unavailable", "ImportError"} =>
           device = "cpu" /\ compute_type = "int8")
    /\ (probe = None => device = None /\ compute_type = None)
    /\ (Raised({"is_cuda_available"}, "ImportError") =>
           /\ probe = "ImportError"
           /\ Completed("is_cuda_available")
           /\ Printed("Using cpu")
           /\ (pc = "exited" /\ faults[Len(faults)].kind = "ImportError" =>
                  exitCode = 0 /\ shown # <<>>))
    /\ (Called("WhisperModel") =>
           <<device, compute_type>> \in { <<"cuda", "float16">>, <<"cpu", "int8">> })
    /\ \A i \in DOMAIN model :
           /\ model[i].device = device
           /\ model[i].compute_type = compute_type
           /\ <<model[i].device, model[i].compute_type>> \in
                  { <<"cuda", "float16">>, <<"cpu", "int8">> }

C7_Witness ==
    /\ probe = "ImportError"
    /\ Len(model) = 1
    /\ model[1].device = "cpu"
    /\ model[1].compute_type = "int8"

(* C8, as the specification of the Waveform Writer states it: every sample *)
(* written is round(a * 32767), the nearest integer.                       *)
C8_RoundsToNearest ==
    wav.exists =>
        /\ Len(wav.samples) = Len(audio_data)
        /\ \A i \in DOMAIN audio_data :
               wav.samples[i] = RoundHalfEven(audio_data[i] * FullScale, AmpDen)

(* C8, amended: every sample written is a * 32767 with its fraction        *)
(* dropped, that is the integer s nearest to zero with |s| <= |a * 32767|  *)
(* < |s| + 1 and the sign of a; it lies in -32767 .. 32767.                *)
C8_TruncatesTowardZero ==
    wav.exists =>
        /\ Len(wav.samples) = Len(audio_data)
        /\ wav.rate = args.sample_rate
        /\ \A i \in DOMAIN audio_data :
               LET x == audio_data[i] * FullScale
                   s == wav.samples[i]
               IN  /\ (0 - FullScale) <= s /\ s <= FullScale
                   /\ (x >= 0 => s * AmpDen <= x /\ x < (s + 1) * AmpDen)
                   /\ (x < 0 => (s - 1) * AmpDen < x /\ x <= s * AmpDen)

C8_Witness ==
    /\ wav.exists
    /\ \E i \in DOMAIN audio_data, j \in DOMAIN audio_data :
           /\ audio_data[i] < 0
           /\ (audio_data[i] * FullScale) % AmpDen # 0
           /\ audio_data[j] > 0
           /\ (audio_data[j] * FullScale) % AmpDen # 0

(* C9: sd.rec has started the capture before the first countdown line; the *)
(* countdown writes exactly duration lines; record_audio returns, and      *)
(* save_audio is entered, only after sd.wait has returned on a completed   *)
(* capture, with the buffer of duration * sample_rate frames; an error of  *)
(* the device in sd.rec, in the countdown or in sd.wait ends the run with  *)
(* exit code 1 and record_audio returns nothing.                           *)
C9_CaptureConfirmedBeforeSave ==
    /\ (ticks > 0 => Called("sd.rec") /\ capture # "idle")
    /\ (pc = "countdown" =>
           ticks + remaining = args.duration /\ capture # "idle")
    /\ (pc = "sd.wait" => ticks = args.duration)
    /\ (Completed("record_audio") =>
           /\ ticks = args.duration
           /\ Count("sd.rec") = 1
           /\ Count("sd.wait") = 1
           /\ capture = "complete"
           /\ audio_data = buffer
           /\ Len(audio_data) = Frames(args.duration, args.sample_rate))
    /\ (Called("save_audio") => Completed("record_audio"))
    /\ (DeviceError =>
           /\ pc = "exited"
           /\ exitCode = 1
           /\ LastPrinted("Error recording audio")
           /\ ~Completed("record_audio")
           /\ ~Called("save_audio"))

C9_Witness ==
    /\ Completed("record_audio")
    /\ Called("save_audio")
    /\ ticks = 2
    /\ Len(audio_data) = 2 * args.sample_rate

(* C10: in a run with duration <= 0 the duration error is printed only     *)
(* after the directory exists and the model stage (the download too, when  *)
(* requested) has returned normally; and when the model stage fails, the   *)
(* run ends with the model load error and exit code 1, record_audio is not *)
(* entered and the duration error is never printed.                        *)
C10_DurationCheckedAfterModel ==
    (Completed("parse_arguments") /\ args.duration <= 0) =>
        /\ (Called("record_audio") \/ Printed(DurationError) =>
               /\ dirExists
               /\ Completed("create_output_directory")
               /\ Completed("load_whisper_model")
               /\ Len(model) = 1
               /\ (args.download_latest => Completed("download_model")))
        /\ (ModelStageFailed =>
               /\ pc = "exited"
               /\ exitCode = 1
               /\ Printed("Error loading Whisper model")
               /\ ~Printed(DurationError)
               /\ ~Called("record_audio"))

C10_Witness ==
    /\ args.duration <= 0
    /\ args.download_latest
    /\ Printed(DurationError)
    /\ Len(model) = 1
    /\ exitCode = 1

=============================================================================
